---- MODULE Spec2Model ----
(***************************************************************************)
(* Model of app.Application (src/app/app.go): a supervisor that starts the *)
(* registered runners in an errgroup sharing one cancellable context, and  *)
(* on Shutdown cancels that context and closes the registered closers in   *)
(* order, logging the failures.                                            *)
(*                                                                         *)
(* An error value is modelled by the token sequence of its message; the    *)
(* nil error is the empty sequence.  Go slices are 0-based, the sequences  *)
(* here are 1-based: closers[1] is a.closers[0].                           *)
(***************************************************************************)
EXTENDS Naturals, Sequences, FiniteSets

\* Bounds of the model: how many runners are registered, and how many
\* closers are added after the logger.
MaxRunners == 2
MaxClosers == 1

\* Concrete types (%T) of the registered runners and closers.
RunnerTypes == {"A", "B"}
CloserTypes == {"X", "Y"}
LoggerType  == "*log.Adapter"

\* The two places a process calls Shutdown from: a signal handler (at any
\* time) and the exit path (after Run has returned).
ShutdownCalls == {"signal", "exit"}

Nil == <<>>

\* What runner.Run(ctx) may return besides nil.
RunnerErrs == {<<"boom">>}

\* What closer.Close() may return, by the closer's type.
CloseOutcomes(c) ==
    IF c = LoggerType THEN {Nil, <<"sync failed">>}
    ELSE IF c = "Y" THEN {<<"disk full">>}
    ELSE {Nil}

VARIABLES
    runners,    \* a.runners
    closers,    \* a.closers
    parentDone, \* the context of context.WithCancel is cancelled (a.cancel ran)
    groupDone,  \* the errgroup cancelled the context it derived (a.ctx)
    errOnce,    \* the group's errOnce has fired
    groupErr,   \* the group's err
    wg,         \* the group's WaitGroup counter
    pcRun,      \* position of the caller of Run
    runResult,  \* what Run returned
    task,       \* the goroutines started by a.group.Go, in start order
    arrivals,   \* history: tasks in the order their error reached errOnce.Do
    sd,         \* the Shutdown calls: position, loop index, history of releases
    logs        \* the entries each Shutdown call wrote with a.logger.Error

vars == <<runners, closers, parentDone, groupDone, errOnce, groupErr, wg,
          pcRun, runResult, task, arrivals, sd, logs>>

runVars == <<parentDone, groupDone, errOnce, groupErr, wg, pcRun, runResult,
             task, arrivals>>

\* Sequences over S of length 1..n (the arguments of a variadic call).
SeqsUpTo(S, n) == UNION {[1..k -> S] : k \in 1..n}

\* a.ctx.Done() is closed: a.ctx is the group's context, a child of the
\* context a.cancel cancels.
CtxDone == parentDone \/ groupDone

\* errors.WithMessagef(err, "start runner[%T]", runner).Error()
WithMessagef(err, runner) == <<"start runner[", runner, "]", ": ">> \o err

Init ==
    /\ runners = <<>>
    /\ closers = <<LoggerType>>
    /\ parentDone = FALSE
    /\ groupDone = FALSE
    /\ errOnce = FALSE
    /\ groupErr = Nil
    /\ wg = 0
    /\ pcRun = "idle"
    /\ runResult = Nil
    /\ task = <<>>
    /\ arrivals = <<>>
    /\ sd = [s \in ShutdownCalls |-> [pc |-> "idle", i |-> 1, invoked |-> <<>>]]
    /\ logs = [s \in ShutdownCalls |-> <<>>]

----
\* Registration

AddRunners(rs) ==
    /\ pcRun = "idle"
    /\ Len(runners) + Len(rs) <= MaxRunners
    /\ runners' = runners \o rs
    /\ UNCHANGED <<closers, runVars, sd, logs>>

\* Mutant of AddClosers: added closers go in front of the registered ones.
AddClosersPrepend(cs) ==
    /\ \A s \in ShutdownCalls : sd[s].pc = "idle"
    /\ Len(closers) + Len(cs) <= 1 + MaxClosers
    /\ closers' = cs \o closers
    /\ UNCHANGED <<runners, runVars, sd, logs>>

AddClosers(cs) ==
    /\ \A s \in ShutdownCalls : sd[s].pc = "idle"
    /\ Len(closers) + Len(cs) <= 1 + MaxClosers
    /\ closers' = closers \o cs
    /\ UNCHANGED <<runners, runVars, sd, logs>>

----
\* Run

RunCall ==
    /\ pcRun = "idle"
    /\ pcRun' = "loop"
    /\ UNCHANGED <<runners, closers, parentDone, groupDone, errOnce, groupErr,
                   wg, runResult, task, arrivals, sd, logs>>

\* One iteration of the loop: a.group.Go(func) adds one to the WaitGroup and
\* starts the goroutine, which calls runner.Run(a.ctx).
RunGo ==
    /\ pcRun = "loop"
    /\ Len(task) < Len(runners)
    /\ wg' = wg + 1
    /\ task' = Append(task, [st |-> "running", err |-> Nil])
    /\ UNCHANGED <<runners, closers, parentDone, groupDone, errOnce, groupErr,
                   pcRun, runResult, arrivals, sd, logs>>

\* The loop is over: Run calls a.group.Wait().
RunWaitEnter ==
    /\ pcRun = "loop"
    /\ Len(task) = Len(runners)
    /\ pcRun' = "wait"
    /\ UNCHANGED <<runners, closers, parentDone, groupDone, errOnce, groupErr,
                   wg, runResult, task, arrivals, sd, logs>>

\* Mutant of RunWait: Run returns as soon as an error is recorded, without
\* waiting for the outstanding goroutines.
RunWaitEarly ==
    /\ pcRun = "wait"
    /\ wg = 0 \/ errOnce
    /\ groupDone' = TRUE
    /\ runResult' = groupErr
    /\ pcRun' = "returned"
    /\ UNCHANGED <<runners, closers, parentDone, errOnce, groupErr, wg, task,
                   arrivals, sd, logs>>

\* Mutant of RunWait: Run waits for the group and drops its error.
RunWaitNil ==
    /\ pcRun = "wait"
    /\ wg = 0
    /\ groupDone' = TRUE
    /\ runResult' = Nil
    /\ pcRun' = "returned"
    /\ UNCHANGED <<runners, closers, parentDone, errOnce, groupErr, wg, task,
                   arrivals, sd, logs>>

\* Mutant of RunWait: Run closes the logger itself before it returns
\* (defer a.logger.Close()).
RunWaitClosesLogger ==
    /\ pcRun = "wait"
    /\ wg = 0
    /\ groupDone' = TRUE
    /\ runResult' = groupErr
    /\ pcRun' = "returned"
    /\ sd' = [sd EXCEPT !["exit"].invoked =
                 Append(@, [pos |-> 1, ctxDone |-> TRUE, returned |-> TRUE,
                            err |-> Nil])]
    /\ UNCHANGED <<runners, closers, parentDone, errOnce, groupErr, wg, task,
                   arrivals, logs>>

\* Mutant of RunWait: with no recorded error, the wait returns the context's
\* cancellation error when Shutdown cancelled the context.
RunWaitCtxErr ==
    /\ pcRun = "wait"
    /\ wg = 0
    /\ groupDone' = TRUE
    /\ runResult' = IF groupErr = Nil /\ parentDone
                    THEN <<"context canceled">>
                    ELSE groupErr
    /\ pcRun' = "returned"
    /\ UNCHANGED <<runners, closers, parentDone, errOnce, groupErr, wg, task,
                   arrivals, sd, logs>>

\* Mutant of RunWait: the wait returns the group's error and leaves the
\* group's context as it is.
RunWaitNoCancel ==
    /\ pcRun = "wait"
    /\ wg = 0
    /\ runResult' = groupErr
    /\ pcRun' = "returned"
    /\ UNCHANGED <<runners, closers, parentDone, groupDone, errOnce, groupErr,
                   wg, task, arrivals, sd, logs>>

\* Mutant of RunWait: Run gives up on the outstanding runners once the
\* context is cancelled.
RunWaitUntilCancelled ==
    /\ pcRun = "wait"
    /\ wg = 0 \/ CtxDone
    /\ groupDone' = TRUE
    /\ runResult' = groupErr
    /\ pcRun' = "returned"
    /\ UNCHANGED <<runners, closers, parentDone, errOnce, groupErr, wg, task,
                   arrivals, sd, logs>>

\* group.Wait(): wg.Wait() returns when the counter is zero; then the group
\* cancels its context and returns its err.
RunWait ==
    /\ pcRun = "wait"
    /\ wg = 0
    /\ groupDone' = TRUE
    /\ runResult' = groupErr
    /\ pcRun' = "returned"
    /\ UNCHANGED <<runners, closers, parentDone, errOnce, groupErr, wg, task,
                   arrivals, sd, logs>>

\* runner.Run(a.ctx) of task i returns e.
RunnerReturn(i, e) ==
    /\ i \in 1..Len(task)
    /\ task[i].st = "running"
    /\ task' = [task EXCEPT ![i] = [st |-> "returned", err |-> e]]
    /\ UNCHANGED <<runners, closers, parentDone, groupDone, errOnce, groupErr,
                   wg, pcRun, runResult, arrivals, sd, logs>>

\* Mutant of GroupDone: the group keeps the last error instead of the first.
GroupDoneLastWins(i) ==
    /\ i \in 1..Len(task)
    /\ task[i].st = "returned"
    /\ IF task[i].err # Nil
       THEN /\ arrivals' = Append(arrivals, i)
            /\ errOnce' = TRUE
            /\ groupErr' = WithMessagef(task[i].err, runners[i])
            /\ groupDone' = TRUE
       ELSE UNCHANGED <<arrivals, errOnce, groupErr, groupDone>>
    /\ wg' = wg - 1
    /\ task' = [task EXCEPT ![i].st = "done"]
    /\ UNCHANGED <<runners, closers, parentDone, pcRun, runResult, sd, logs>>

\* Mutant of GroupDone: the group was made without errgroup.WithContext, so
\* recording an error cancels nothing.
GroupDoneNoCancel(i) ==
    /\ i \in 1..Len(task)
    /\ task[i].st = "returned"
    /\ IF task[i].err # Nil
       THEN /\ arrivals' = Append(arrivals, i)
            /\ IF ~errOnce
               THEN /\ errOnce' = TRUE
                    /\ groupErr' = WithMessagef(task[i].err, runners[i])
               ELSE UNCHANGED <<errOnce, groupErr>>
       ELSE UNCHANGED <<arrivals, errOnce, groupErr>>
    /\ UNCHANGED groupDone
    /\ wg' = wg - 1
    /\ task' = [task EXCEPT ![i].st = "done"]
    /\ UNCHANGED <<runners, closers, parentDone, pcRun, runResult, sd, logs>>

\* Mutant of GroupDone: a runner that failed is started again instead of
\* being counted as done.
GroupDoneRestarts(i) ==
    /\ i \in 1..Len(task)
    /\ task[i].st = "returned"
    /\ IF task[i].err # Nil
       THEN /\ task' = [task EXCEPT ![i] = [st |-> "running", err |-> Nil]]
            /\ UNCHANGED <<arrivals, errOnce, groupErr, groupDone, wg>>
       ELSE /\ wg' = wg - 1
            /\ task' = [task EXCEPT ![i].st = "done"]
            /\ UNCHANGED <<arrivals, errOnce, groupErr, groupDone>>
    /\ UNCHANGED <<runners, closers, parentDone, pcRun, runResult, sd, logs>>

\* The rest of the goroutine of task i: the function given to group.Go wraps
\* a non-nil error; the group records the first one with errOnce and cancels
\* its context, and in every case counts the goroutine as done.
GroupDone(i) ==
    /\ i \in 1..Len(task)
    /\ task[i].st = "returned"
    /\ IF task[i].err # Nil
       THEN /\ arrivals' = Append(arrivals, i)
            /\ IF ~errOnce
               THEN /\ errOnce' = TRUE
                    /\ groupErr' = WithMessagef(task[i].err, runners[i])
                    /\ groupDone' = TRUE
               ELSE UNCHANGED <<errOnce, groupErr, groupDone>>
       ELSE UNCHANGED <<arrivals, errOnce, groupErr, groupDone>>
    /\ wg' = wg - 1
    /\ task' = [task EXCEPT ![i].st = "done"]
    /\ UNCHANGED <<runners, closers, parentDone, pcRun, runResult, sd, logs>>

----
\* Shutdown

\* Mutant of ShutdownCall: Shutdown goes to the closers without a.cancel().
ShutdownCallNoCancel(s) ==
    /\ sd[s].pc = "idle"
    /\ s = "exit" => pcRun = "returned"
    /\ sd' = [sd EXCEPT ![s].pc = "loop", ![s].i = 1]
    /\ UNCHANGED <<runners, closers, runVars, logs>>

\* Mutant of ShutdownCall: after cancelling, Shutdown installs a fresh
\* context so that the supervisor can be used again.
ShutdownCallRenewsContext(s) ==
    /\ sd[s].pc = "idle"
    /\ s = "exit" => pcRun = "returned"
    /\ parentDone' = ~CtxDone
    /\ groupDone' = FALSE
    /\ sd' = [sd EXCEPT ![s].pc = "loop", ![s].i = 1]
    /\ UNCHANGED <<runners, closers, errOnce, groupErr, wg, pcRun,
                   runResult, task, arrivals, logs>>

\* Mutant of ShutdownCall: a Shutdown after another Shutdown began returns
\* at once, releasing nothing.
ShutdownCallOnce(s) ==
    /\ sd[s].pc = "idle"
    /\ s = "exit" => pcRun = "returned"
    /\ parentDone' = TRUE
    /\ sd' = IF \E o \in ShutdownCalls : sd[o].pc # "idle"
             THEN [sd EXCEPT ![s].pc = "done"]
             ELSE [sd EXCEPT ![s].pc = "loop", ![s].i = 1]
    /\ UNCHANGED <<runners, closers, groupDone, errOnce, groupErr, wg, pcRun,
                   runResult, task, arrivals, logs>>

\* Shutdown is entered: a.cancel(), then the loop starts at the first closer.
ShutdownCall(s) ==
    /\ sd[s].pc = "idle"
    /\ s = "exit" => pcRun = "returned"
    /\ parentDone' = TRUE
    /\ sd' = [sd EXCEPT ![s].pc = "loop", ![s].i = 1]
    /\ UNCHANGED <<runners, closers, groupDone, errOnce, groupErr, wg, pcRun,
                   runResult, task, arrivals, logs>>

\* Mutant of ShutdownInvoke: the release is started without waiting for the
\* previous one (go closer.Close()).
ShutdownInvokeAsync(s) ==
    /\ sd[s].pc \in {"loop", "closing"}
    /\ Len(sd[s].invoked) < Len(closers)
    /\ sd' = [sd EXCEPT ![s].pc = "closing",
                        ![s].invoked = Append(@, [pos |-> Len(sd[s].invoked) + 1,
                                                  ctxDone |-> CtxDone,
                                                  returned |-> FALSE,
                                                  err |-> Nil])]
    /\ UNCHANGED <<runners, closers, runVars, logs>>

\* Mutant of ShutdownInvoke: Shutdown waits for Run before it releases.
ShutdownInvokeAfterRun(s) ==
    /\ sd[s].pc = "loop"
    /\ sd[s].i <= Len(closers)
    /\ pcRun = "returned"
    /\ sd' = [sd EXCEPT ![s].pc = "closing",
                        ![s].invoked = Append(@, [pos |-> sd[s].i,
                                                  ctxDone |-> CtxDone,
                                                  returned |-> FALSE,
                                                  err |-> Nil])]
    /\ UNCHANGED <<runners, closers, runVars, logs>>

\* closer := a.closers[i]; closer.Close() is called.
ShutdownInvoke(s) ==
    /\ sd[s].pc = "loop"
    /\ sd[s].i <= Len(closers)
    /\ sd' = [sd EXCEPT ![s].pc = "closing",
                        ![s].invoked = Append(@, [pos |-> sd[s].i,
                                                  ctxDone |-> CtxDone,
                                                  returned |-> FALSE,
                                                  err |-> Nil])]
    /\ UNCHANGED <<runners, closers, runVars, logs>>

\* a.logger.Error(a.ctx, err, log.String("closer", fmt.Sprintf("%T", closer)))
LogError(log, err, closer) == Append(log, [err |-> err, closer |-> closer])

\* Mutant of CloseReturn: a failing closer ends the loop.
CloseReturnAbort(s, e) ==
    /\ sd[s].pc = "closing"
    /\ e \in CloseOutcomes(closers[sd[s].i])
    /\ logs' = [logs EXCEPT ![s] =
                  IF e # Nil THEN LogError(@, e, closers[sd[s].i]) ELSE @]
    /\ sd' = [sd EXCEPT ![s].pc = "loop",
                        ![s].i = IF e # Nil THEN Len(closers) + 1 ELSE @ + 1,
                        ![s].invoked[Len(sd[s].invoked)].returned = TRUE,
                        ![s].invoked[Len(sd[s].invoked)].err = e]
    /\ UNCHANGED <<runners, closers, runVars>>

\* Mutant of CloseReturn: a closer's error is handed to the group as if a
\* runner had failed.
CloseReturnPropagates(s, e) ==
    /\ sd[s].pc = "closing"
    /\ e \in CloseOutcomes(closers[sd[s].i])
    /\ logs' = [logs EXCEPT ![s] =
                  IF e # Nil THEN LogError(@, e, closers[sd[s].i]) ELSE @]
    /\ sd' = [sd EXCEPT ![s].pc = "loop",
                        ![s].i = @ + 1,
                        ![s].invoked[Len(sd[s].invoked)].returned = TRUE,
                        ![s].invoked[Len(sd[s].invoked)].err = e]
    /\ groupErr' = IF e # Nil /\ groupErr = Nil THEN e ELSE groupErr
    /\ UNCHANGED <<runners, closers, parentDone, groupDone, errOnce, wg,
                   pcRun, runResult, task, arrivals>>

\* Mutant of CloseReturn: a closer failure after Run returned replaces Run's
\* result.
CloseReturnFailsRun(s, e) ==
    /\ sd[s].pc = "closing"
    /\ e \in CloseOutcomes(closers[sd[s].i])
    /\ logs' = [logs EXCEPT ![s] =
                  IF e # Nil THEN LogError(@, e, closers[sd[s].i]) ELSE @]
    /\ sd' = [sd EXCEPT ![s].pc = "loop",
                        ![s].i = @ + 1,
                        ![s].invoked[Len(sd[s].invoked)].returned = TRUE,
                        ![s].invoked[Len(sd[s].invoked)].err = e]
    /\ runResult' = IF e # Nil /\ pcRun = "returned" THEN e ELSE runResult
    /\ UNCHANGED <<runners, closers, parentDone, groupDone, errOnce, groupErr,
                   wg, pcRun, task, arrivals>>

\* closer.Close() returns e; a non-nil e is logged; i++.
CloseReturn(s, e) ==
    /\ sd[s].pc = "closing"
    /\ e \in CloseOutcomes(closers[sd[s].i])
    /\ logs' = [logs EXCEPT ![s] =
                  IF e # Nil THEN LogError(@, e, closers[sd[s].i]) ELSE @]
    /\ sd' = [sd EXCEPT ![s].pc = "loop",
                        ![s].i = @ + 1,
                        ![s].invoked[Len(sd[s].invoked)].returned = TRUE,
                        ![s].invoked[Len(sd[s].invoked)].err = e]
    /\ UNCHANGED <<runners, closers, runVars>>

\* i reached len(a.closers): Shutdown returns.
ShutdownReturn(s) ==
    /\ sd[s].pc = "loop"
    /\ sd[s].i > Len(closers)
    /\ sd' = [sd EXCEPT ![s].pc = "done"]
    /\ UNCHANGED <<runners, closers, runVars, logs>>

----
Next ==
    \/ \E rs \in SeqsUpTo(RunnerTypes, MaxRunners) : AddRunners(rs)
    \/ \E cs \in SeqsUpTo(CloserTypes, MaxClosers) : AddClosers(cs)
    \/ RunCall
    \/ RunGo
    \/ RunWaitEnter
    \/ RunWait
    \/ \E i \in 1..MaxRunners : \E e \in {Nil} \cup RunnerErrs : RunnerReturn(i, e)
    \/ \E i \in 1..MaxRunners : GroupDone(i)
    \/ \E s \in ShutdownCalls : ShutdownCall(s)
    \/ \E s \in ShutdownCalls : ShutdownInvoke(s)
    \/ \E s \in ShutdownCalls : \E e \in {Nil, <<"sync failed">>, <<"disk full">>} : CloseReturn(s, e)
    \/ \E s \in ShutdownCalls : ShutdownReturn(s)

Spec == Init /\ [][Next]_vars

\* The steps of Shutdown call s after it was entered.
ShutdownStep(s) ==
    \/ ShutdownInvoke(s)
    \/ \E e \in {Nil, <<"sync failed">>, <<"disk full">>} : CloseReturn(s, e)
    \/ ShutdownReturn(s)

\* The steps of Run's caller after Run was called.
RunStep == RunGo \/ RunWaitEnter \/ RunWait

\* The steps of the goroutine of task i that a cooperative runner takes: it
\* returns once the shared context is cancelled, and the group's bookkeeping
\* follows.
CooperativeStep(i) ==
    \/ CtxDone /\ \E e \in {Nil} \cup RunnerErrs : RunnerReturn(i, e)
    \/ GroupDone(i)

\* Every closer's Close returns and the goroutine calling Shutdown is
\* scheduled; nothing is assumed of Run or of the runners.
FairShutdownSpec ==
    Spec /\ \A s \in ShutdownCalls : WF_vars(ShutdownStep(s))

\* The goroutines of Run and of the group are scheduled, and every runner is
\* cooperative.
FairRunSpec ==
    Spec /\ WF_vars(RunStep) /\ \A i \in 1..MaxRunners : WF_vars(CooperativeStep(i))

----
\* Properties

\* Task i's runner has returned a non-nil error.
Failed(i) == task[i].st \in {"returned", "done"} /\ task[i].err # Nil

\* The message Run's error carries for a failure of task i.
Expected(i) == <<"start runner[", runners[i], "]", ": ">> \o task[i].err

\* C1: when Run has returned (with nil or an error), every registered runner
\* was started and its goroutine has finished; no runner is still active.
C1_RunWaitsForAllRunners ==
    pcRun = "returned" =>
        /\ Len(task) = Len(runners)
        /\ \A i \in 1..Len(task) : task[i].st = "done"

\* Run returned an error with two runners while the signal handler's Shutdown
\* is still in progress.
C1_Witness ==
    /\ pcRun = "returned"
    /\ Len(task) = 2
    /\ runResult # Nil
    /\ sd["signal"].pc \in {"loop", "closing"}

\* C2: Run returns nil exactly when every runner returned nil; with no
\* runner registered the wait has nothing to wait for.
C2_NilIffAllNil ==
    /\ pcRun = "returned" =>
          (runResult = Nil <=> \A i \in 1..Len(runners) : task[i].err = Nil)
    /\ (pcRun = "wait" /\ runners = <<>>) => wg = 0

\* Run returned an error although one of its two runners returned nil.
C2_Witness ==
    /\ pcRun = "returned"
    /\ Len(runners) = 2
    /\ runResult # Nil
    /\ \E i \in 1..2 : task[i].err = Nil

\* C3: the group's error is latched by the first failure to arrive, wrapped
\* with that runner's type, a later failure never replaces it, and it is what
\* Run returns.
C3_FirstErrorLatch ==
    /\ errOnce <=> arrivals # <<>>
    /\ groupErr = IF arrivals = <<>> THEN Nil ELSE Expected(arrivals[1])
    /\ pcRun = "returned" => runResult = groupErr

\* Two runners of different types failed, the one registered second first.
C3_Witness ==
    /\ pcRun = "returned"
    /\ arrivals = <<2, 1>>
    /\ runners[1] # runners[2]
    /\ runResult = <<"start runner[", runners[2], "]", ": ", "boom">>

\* C4: once a runner's failure is recorded the group has cancelled the shared
\* context (so every runner still running sees it cancelled, with no
\* Shutdown), this happens before Run returns, and Run's error names a
\* runner that failed.
C4_FailureCancelsContext ==
    /\ (\E i \in 1..Len(task) : task[i].st = "done" /\ task[i].err # Nil)
          => groupDone /\ CtxDone
    /\ (pcRun = "returned" /\ \E i \in 1..Len(task) : Failed(i)) =>
          \E i \in 1..Len(task) : Failed(i) /\ runResult = Expected(i)

\* A failure is recorded, no Shutdown was called, Run is blocked and another
\* runner is still running with the context cancelled.
C4_Witness ==
    /\ pcRun = "wait"
    /\ errOnce
    /\ ~parentDone
    /\ CtxDone
    /\ \E j \in 1..Len(task) : task[j].st = "running"

\* C5: a Shutdown call releases the closers at positions 1, 2, ... in that
\* order, each once, and when it completes it has released every registered
\* closer, whichever of them failed.
C5_AllClosersOnceInOrder ==
    \A s \in ShutdownCalls :
        /\ \A k \in 1..Len(sd[s].invoked) : sd[s].invoked[k].pos = k
        /\ sd[s].pc = "done" =>
              /\ Len(sd[s].invoked) = Len(closers)
              /\ \A k \in 1..Len(closers) : sd[s].invoked[k].returned

\* A call completed whose first closer failed and whose second closer was
\* released after it.
C5_Witness ==
    \E s \in ShutdownCalls :
        /\ sd[s].pc = "done"
        /\ Len(closers) = 2
        /\ sd[s].invoked[1].err # Nil
        /\ sd[s].invoked[2].pos = 2
        /\ sd[s].invoked[2].returned

\* C6 as stated: in every state at most one closer's release is in progress.
C6_AtMostOneReleaseInProgress ==
    Cardinality({s \in ShutdownCalls : sd[s].pc = "closing"}) <= 1

\* C6 as amended: within one Shutdown call at most one release is in
\* progress, and a closer's release starts only after the releases of the
\* closers before it have returned.
C6_SequentialWithinCall ==
    \A s \in ShutdownCalls :
        /\ \A k \in 1..Len(sd[s].invoked) :
              k < Len(sd[s].invoked) => sd[s].invoked[k].returned
        /\ Cardinality({k \in 1..Len(sd[s].invoked) :
                           ~sd[s].invoked[k].returned}) <= 1

\* Both calls have a release in progress, one of them of its second closer.
C6_Witness ==
    /\ \A s \in ShutdownCalls : sd[s].pc = "closing"
    /\ \E s \in ShutdownCalls : Len(sd[s].invoked) >= 2

\* C7: Shutdown cancels the shared context before it releases anything:
\* every release was invoked with the context cancelled, and the context is
\* cancelled in every state in which a Shutdown call has been entered; a
\* Shutdown entered with the context already cancelled leaves it cancelled
\* and the group as it was.
C7_CancelBeforeClosers ==
    /\ [](\A s \in ShutdownCalls :
            /\ sd[s].pc # "idle" => parentDone /\ CtxDone
            /\ \A k \in 1..Len(sd[s].invoked) : sd[s].invoked[k].ctxDone)
    /\ [][\A s \in ShutdownCalls :
            (sd[s].pc = "idle" /\ sd'[s].pc # "idle" /\ CtxDone)
                => (CtxDone' /\ UNCHANGED <<groupDone, errOnce, groupErr>>)]_vars

\* A release is in progress while Run is blocked on a running runner and the
\* group itself has cancelled nothing.
C7_Witness ==
    /\ sd["signal"].pc = "closing"
    /\ pcRun = "wait"
    /\ ~groupDone
    /\ \E i \in 1..Len(task) : task[i].st = "running"

\* C8: whenever the closers' releases return, a Shutdown call that was
\* entered completes, whatever Run and the runners do.
C8_ShutdownCompletes ==
    \A s \in ShutdownCalls : (sd[s].pc # "idle") ~> (sd[s].pc = "done")

\* Shutdown completed over every closer while Run is blocked on a runner that
\* is still running.
C8_Witness ==
    /\ sd["signal"].pc = "done"
    /\ Len(sd["signal"].invoked) = Len(closers)
    /\ pcRun = "wait"
    /\ \E i \in 1..Len(task) : task[i].st = "running"

\* The failed releases of call s, in order.
FailedReleases(s) ==
    SelectSeq(sd[s].invoked, LAMBDA r : r.returned /\ r.err # Nil)

\* C9: the log entries of a Shutdown call are exactly its failed releases,
\* one entry each with the closer's type and error; and no step of a
\* Shutdown call changes the group's error or what Run returns.  (Shutdown
\* has no result.)
C9_CloserFailuresOnlyLogged ==
    /\ [](\A s \in ShutdownCalls :
            logs[s] = [k \in 1..Len(FailedReleases(s)) |->
                         [err |-> FailedReleases(s)[k].err,
                          closer |-> closers[FailedReleases(s)[k].pos]]])
    /\ [][(\E s \in ShutdownCalls : sd'[s] # sd[s])
            => UNCHANGED <<groupErr, runResult>>]_vars

\* A call completed with one failed and one successful release after Run
\* returned nil.
C9_Witness ==
    /\ pcRun = "returned"
    /\ runResult = Nil
    /\ \E s \in ShutdownCalls :
          /\ sd[s].pc = "done"
          /\ Len(logs[s]) = 1
          /\ Len(closers) >= 2
          /\ logs[s][1] = [err |-> <<"disk full">>, closer |-> "Y"]

\* C10: with cooperative runners, once Run was called and a runner returned
\* an error, or Shutdown was called, Run eventually returns.
C10_FailureEndsRun ==
    (pcRun # "idle" /\ ((\E i \in 1..Len(task) : Failed(i)) \/ parentDone))
        ~> (pcRun = "returned")

\* Run returned an error with no Shutdown call, and the other runner
\* returned nil.
C10_Witness ==
    /\ pcRun = "returned"
    /\ ~parentDone
    /\ runResult # Nil
    /\ \E i \in 1..Len(task) : task[i].err = Nil

\* C11 as stated: in no state has a runner returned a non-nil error while the
\* shared context is not cancelled.
C11_NoFailureBeforeCancel ==
    \A i \in 1..Len(task) : Failed(i) => CtxDone

\* C11 as amended: in no state has the group recorded a runner's failure
\* while the shared context is not cancelled; the context is cancelled by
\* the recording, which follows the runner's return.
C11_NoRecordedFailureBeforeCancel ==
    /\ errOnce => CtxDone
    /\ \A i \in 1..Len(task) :
          (task[i].st = "done" /\ task[i].err # Nil) => CtxDone

\* The first failure was recorded while the other runner is still running,
\* and no Shutdown was called.
C11_Witness ==
    /\ Len(task) = 2
    /\ Len(arrivals) = 1
    /\ task[arrivals[1]].st = "done"
    /\ \E j \in 1..2 : task[j].st = "running"
    /\ \A s \in ShutdownCalls : sd[s].pc = "idle"
    /\ CtxDone

\* How many times Shutdown call s has invoked the release of closers[k].
AttemptsBy(s, k) ==
    Cardinality({j \in 1..Len(sd[s].invoked) : sd[s].invoked[j].pos = k})

\* How many times the release of closers[k] was invoked over the execution.
Attempts(k) ==
    Cardinality({p \in ShutdownCalls \X (1..Len(closers)) :
                    /\ p[2] <= Len(sd[p[1]].invoked)
                    /\ sd[p[1]].invoked[p[2]].pos = k})

\* C12 as stated: when the exit path's Shutdown (called after Run returned)
\* completes, every registered closer was attempted exactly once over the
\* whole execution.
C12_ExactlyOnceOverall ==
    sd["exit"].pc = "done" => \A k \in 1..Len(closers) : Attempts(k) = 1

\* C12 as amended: when the exit path's Shutdown completes it has attempted
\* every registered closer exactly once, which is exactly once over the
\* whole execution if no other Shutdown call was made; no step of Run
\* touches a Shutdown call or the log, and no step of Shutdown touches the
\* runners, the tasks or Run's position.
C12_ExitPathReleasesAll ==
    /\ [](sd["exit"].pc = "done" =>
            \A k \in 1..Len(closers) :
                /\ AttemptsBy("exit", k) = 1
                /\ sd["signal"].pc = "idle" => Attempts(k) = 1)
    /\ [][(pcRun' # pcRun \/ task' # task) => UNCHANGED <<sd, logs>>]_vars
    /\ [][sd' # sd => UNCHANGED <<runners, task, wg, pcRun>>]_vars

\* Run returned an error, the exit path's Shutdown is the only one and has
\* completed over two closers.
C12_Witness ==
    /\ pcRun = "returned"
    /\ runResult # Nil
    /\ sd["exit"].pc = "done"
    /\ sd["signal"].pc = "idle"
    /\ Len(closers) = 2
    /\ \A k \in 1..2 : Attempts(k) = 1

\* C13: once the shared context is cancelled it stays cancelled, and so do
\* the two cancellations behind it; a step taken with the context cancelled
\* (a further failure, a Shutdown, Run's return) leaves it cancelled.
C13_CancellationIrreversible ==
    /\ [][CtxDone => CtxDone']_vars
    /\ [][parentDone => parentDone']_vars
    /\ [][groupDone => groupDone']_vars

\* Two runner failures were recorded and both Shutdown calls were entered:
\* the context was triggered by a failure, a second failure, Run's return
\* and two Shutdowns.
C13_Witness ==
    /\ Len(arrivals) = 2
    /\ pcRun = "returned"
    /\ \A s \in ShutdownCalls : sd[s].pc # "idle"
    /\ parentDone
    /\ groupDone

\* C14: while a started runner has not returned, Run has not returned and
\* cannot return, whatever failures were recorded and whatever Shutdown
\* calls were made; and a running runner stops running only by returning
\* itself.
C14_NoForcedInterruption ==
    /\ []((\E i \in 1..Len(task) : task[i].st = "running") =>
            /\ pcRun \in {"loop", "wait"}
            /\ wg > 0
            /\ ~ENABLED RunWait)
    /\ [][\A i \in 1..Len(task) :
            (task[i].st = "running" /\ task'[i].st # "running") =>
                (task'[i].st = "returned" /\ UNCHANGED <<pcRun, wg, sd>>)]_vars

\* Run is blocked on a runner that is still running although the other
\* runner's failure was recorded and a Shutdown has completed.
C14_Witness ==
    /\ pcRun = "wait"
    /\ Len(task) = 2
    /\ errOnce
    /\ sd["signal"].pc = "done"
    /\ \E i \in 1..2 : task[i].st = "running"

\* The started units that the group has not yet counted as done.
Outstanding == {i \in 1..Len(task) : task[i].st # "done"}

\* C15: Run starts one unit per registration, in registration order, and by
\* the time it waits every registration has exactly one unit; the group
\* counts exactly the units not yet done; a unit that has returned (failed
\* or not) never runs again; and a step of one unit leaves every other unit,
\* a duplicate of the same runner included, as it was.
C15_EachRegistrationStartedOnce ==
    /\ [](/\ Len(task) <= Len(runners)
          /\ pcRun \in {"wait", "returned"} => Len(task) = Len(runners)
          /\ pcRun = "idle" => task = <<>>
          /\ wg = Cardinality(Outstanding))
    /\ [][/\ Len(task') >= Len(task)
          /\ Len(task') <= Len(task) + 1
          /\ Len(task) > 0 => runners' = runners
          /\ \A i \in 1..Len(task) :
                /\ task[i].st # "running" => task'[i].st # "running"
                /\ task'[i] # task[i] =>
                      \A j \in 1..Len(task) : j # i => task'[j] = task[j]]_vars

\* The same runner was registered twice; one of its two units failed and the
\* other returned nil, and both were counted as done.
C15_Witness ==
    /\ Len(runners) = 2
    /\ runners[1] = runners[2]
    /\ Len(task) = 2
    /\ \A i \in 1..2 : task[i].st = "done"
    /\ task[1].err # Nil
    /\ task[2].err = Nil
    /\ wg = 0

\* The run-state of the supervisor: Created until Run is called, Running
\* while Run starts runners or waits, then AllCompleted or Failed by the
\* value Run returned.
RunState ==
    CASE pcRun = "idle" -> "Created"
      [] pcRun \in {"loop", "wait"} -> "Running"
      [] pcRun = "returned" /\ runResult = Nil -> "AllCompleted"
      [] OTHER -> "Failed"

\* C16: the run-state changes only Created -> Running and Running ->
\* AllCompleted or Failed, so a terminal state is never left; Running ends
\* in Failed exactly when the error latch is set when the wait completes;
\* and a Shutdown can be entered in either terminal state and, when it
\* completes, has released every closer in registration order, each after
\* the cancellation, with no regard to the run-state.
C16_RunStateMachine ==
    /\ [][RunState' # RunState =>
            \/ RunState = "Created" /\ RunState' = "Running"
            \/ /\ RunState = "Running"
               /\ RunState' = IF errOnce THEN "Failed" ELSE "AllCompleted"
               /\ wg = 0
               /\ UNCHANGED errOnce]_vars
    /\ [](RunState = "Failed" <=> (pcRun = "returned" /\ errOnce))
    /\ [](RunState \in {"AllCompleted", "Failed"} =>
            \A s \in ShutdownCalls : sd[s].pc = "idle" => ENABLED ShutdownCall(s))
    /\ [](\A s \in ShutdownCalls : sd[s].pc = "done" =>
            /\ Len(sd[s].invoked) = Len(closers)
            /\ \A k \in 1..Len(closers) :
                  /\ sd[s].invoked[k].pos = k
                  /\ sd[s].invoked[k].ctxDone
                  /\ sd[s].invoked[k].returned)

\* Every runner returned nil, Run returned nil, and the Shutdown made after
\* it released the logger and the added closer, the logger's release failing.
C16_Witness ==
    /\ RunState = "AllCompleted"
    /\ Len(task) = 2
    /\ ~errOnce
    /\ sd["exit"].pc = "done"
    /\ Len(closers) = 2
    /\ sd["exit"].invoked[1].err # Nil
    /\ sd["exit"].invoked[2].pos = 2

\* C17: the logger is the first closer and stays the first, added closers
\* going behind it; the first release a Shutdown call invokes is the
\* logger's; and an entry is written to the logger only by a call that has
\* already invoked the logger's release.
C17_LoggerReleasedFirst ==
    /\ [](/\ Len(closers) >= 1
          /\ closers[1] = LoggerType
          /\ \A k \in 2..Len(closers) : closers[k] \in CloserTypes)
    /\ [][/\ Len(closers') >= Len(closers)
          /\ SubSeq(closers', 1, Len(closers)) = closers]_vars
    /\ [](\A s \in ShutdownCalls :
            /\ Len(sd[s].invoked) >= 1 =>
                  /\ sd[s].invoked[1].pos = 1
                  /\ closers[sd[s].invoked[1].pos] = LoggerType
            /\ logs[s] # <<>> =>
                  /\ Len(sd[s].invoked) >= 1
                  /\ sd[s].invoked[1].returned)
    /\ [][\A s \in ShutdownCalls : logs'[s] # logs[s] =>
            /\ Len(sd[s].invoked) >= 1
            /\ closers[sd[s].invoked[1].pos] = LoggerType]_vars

\* A Shutdown call wrote two entries to the logger, the logger's own failed
\* release and the failure of the closer added behind it.
C17_Witness ==
    \E s \in ShutdownCalls :
        /\ Len(closers) = 2
        /\ Len(logs[s]) = 2
        /\ logs[s][1].closer = LoggerType
        /\ logs[s][2].closer = closers[2]
        /\ sd[s].invoked[1].returned

\* C18: when Run has returned, the context of the group, which is the one
\* the runners were given, is cancelled, whether or not a runner failed or
\* Shutdown was called.
C18_ReturnedImpliesCancelled ==
    pcRun = "returned" => (groupDone /\ CtxDone)

\* Run returned nil after both runners returned nil and no Shutdown call was
\* made: the context is cancelled by the wait alone.
C18_Witness ==
    /\ pcRun = "returned"
    /\ runResult = Nil
    /\ Len(task) = 2
    /\ ~errOnce
    /\ ~parentDone
    /\ \A s \in ShutdownCalls : sd[s].pc = "idle"
    /\ CtxDone

\* The Shutdown calls that have been made / that have completed.
Entered == {s \in ShutdownCalls : sd[s].pc # "idle"}
Completed == {s \in ShutdownCalls : sd[s].pc = "done"}

\* C19: every Shutdown call runs the whole release loop on its own: a call
\* can be entered whatever the other calls have done, a step of one call
\* leaves the other calls' progress alone, each completed call has invoked
\* every closer's release once, so that k completed calls have invoked it k
\* times and it is never invoked more often than calls were entered.
C19_EveryCallReleasesAll ==
    /\ [](\A k \in 1..Len(closers) :
            /\ \A s \in Completed : AttemptsBy(s, k) = 1
            /\ Attempts(k) >= Cardinality(Completed)
            /\ Attempts(k) <= Cardinality(Entered)
            /\ Completed = ShutdownCalls => Attempts(k) = Cardinality(ShutdownCalls))
    /\ [](sd["signal"].pc = "idle" => ENABLED ShutdownCall("signal"))
    /\ []((sd["exit"].pc = "idle" /\ pcRun = "returned") =>
            ENABLED ShutdownCall("exit"))
    /\ [][\A s \in ShutdownCalls : sd'[s] # sd[s] =>
            \A o \in ShutdownCalls \ {s} : sd'[o] = sd[o]]_vars

\* Two Shutdown calls run at the same time: the first closer's release was
\* invoked twice, and the releases of two different closers are in progress.
C19_Witness ==
    /\ Len(closers) = 2
    /\ sd["signal"].pc = "closing"
    /\ sd["exit"].pc = "closing"
    /\ sd["signal"].i = 2
    /\ sd["exit"].i = 1
    /\ Attempts(1) = 2

\* C20: as long as no runner has returned a non-nil error, the group holds
\* no error and Run, if it has returned, returned nil, however many Shutdown
\* calls were made; Run's non-nil result is always the wrapped error of a
\* runner that returned it; and a step of a Shutdown call changes neither
\* the group's error nor Run's result.
C20_ShutdownAloneNeverFailsRun ==
    /\ []((\A i \in 1..Len(task) : task[i].err = Nil) =>
            /\ ~errOnce
            /\ groupErr = Nil
            /\ runResult = Nil)
    /\ []((sd["signal"].pc # "idle" /\ pcRun = "returned" /\ runResult # Nil) =>
            \E i \in 1..Len(task) : Failed(i) /\ runResult = Expected(i))
    /\ [][(\E s \in ShutdownCalls : sd'[s] # sd[s]) =>
            UNCHANGED <<errOnce, groupErr, runResult, task, wg>>]_vars

\* A Shutdown was made from the signal handler and completed, both runners
\* returned nil, and Run returned nil.
C20_Witness ==
    /\ pcRun = "returned"
    /\ runResult = Nil
    /\ Len(task) = 2
    /\ \A i \in 1..2 : task[i].err = Nil
    /\ parentDone
    /\ sd["signal"].pc = "done"
    /\ sd["exit"].pc = "idle"

====
